---------------------------- MODULE Spec2Model ----------------------------
(***************************************************************************)
(* A model of marketflow's data-compilation pipeline (src/get_data.py):    *)
(* remove_inf, create_target, get_index_data, compile_normalise_data,      *)
(* get_input_data and get_preds_data.                                      *)
(*                                                                         *)
(* A DataFrame is a record [cols, rows]: cols is the set of column names,  *)
(* rows the sequence of rows in index (date) order.  A row is              *)
(* [sym, date, cells]: date is the index value (a day number), cells maps  *)
(* every column to a cell, and sym is a tag naming the ticker the row was  *)
(* built from (pandas keeps no such column; the tag only lets properties   *)
(* speak about "the rows of symbol B").                                    *)
(*                                                                         *)
(* A cell is a float: a finite rational n/d, NaN, +inf or -inf.  A         *)
(* standardised (z-scored) value is kept as the abstract finite cell Std.  *)
(***************************************************************************)
EXTENDS Integers, Sequences, FiniteSets, TLC

VARIABLES
    \* ---- create_target applied to one table
    t_in, t_out,
    \* ---- remove_inf applied to one table
    s_in, s_out,
    \* ---- the pipeline
    provider,     \* the price-history provider: symbol -> response
    tickers, indices, period,   \* arguments of the entry point
    pc,           \* position in the pipeline
    cIndices, cPeriod,          \* arguments compile_normalise_data received
    index_df,     \* compile_normalise_data's index_df
    index_calls,  \* number of get_index_data calls so far
    fetched,      \* the provider requests made so far, in order
    i,            \* position of the for loop in tickers
    df,           \* the loop's per-symbol table (local df)
    main_df,      \* the accumulated Dataset
    count,        \* progress counter
    result,       \* what the entry point returned
    raised        \* the exception that left the entry point, or "none"

vars == <<t_in, t_out, s_in, s_out, provider, tickers, indices, period, pc,
          cIndices, cPeriod, index_df, index_calls, fetched, i, df, main_df,
          count, result, raised>>

targetVars == <<t_in, t_out>>
infVars == <<s_in, s_out>>
pipeVars == <<provider, tickers, indices, period, pc, cIndices, cPeriod,
              index_df, index_calls, fetched, i, df, main_df, count, result,
              raised>>

-----------------------------------------------------------------------------
(* Bounds *)

\* rows of a table handed to create_target
MaxTRows == 4
\* rows of a table handed to remove_inf
MaxIRows == 3
\* trading days the provider holds for a symbol
MaxRows == 4
\* the moving-average window, scaled down from 5/20/60/200 rows
MaWindow == 2
\* days per calendar month, scaled down
MonthLen == 3

-----------------------------------------------------------------------------
(* Cells *)

Fin(n) == [k |-> "fin", n |-> n, d |-> 1]
Frac(n, d) == [k |-> "fin", n |-> n, d |-> d]
NaN == [k |-> "nan", n |-> 0, d |-> 1]
PInf == [k |-> "+inf", n |-> 0, d |-> 1]
NInf == [k |-> "-inf", n |-> 0, d |-> 1]
\* a standardised value: finite, its magnitude not tracked
Std == [k |-> "std", n |-> 0, d |-> 1]

IsNaN(c) == c.k = "nan"
IsFinite(c) == c.k \in {"fin", "std"}

\* a < b on floats; every comparison with NaN is false
Less(a, b) ==
    CASE IsNaN(a) \/ IsNaN(b) -> FALSE
      [] a.k = "+inf" -> FALSE
      [] b.k = "-inf" -> FALSE
      [] a.k = "-inf" -> TRUE
      [] b.k = "+inf" -> TRUE
      [] OTHER -> a.n * b.d < b.n * a.d

\* A value a function hands back: a DataFrame, None (nothing yet), or the
\* exception that left it
Frame(cols, rows) == [tag |-> "frame", cols |-> cols, rows |-> rows]
None == [tag |-> "None", cols |-> {}, rows |-> <<>>]
Exc(e) == [tag |-> e, cols |-> {}, rows |-> <<>>]
IsFrame(f) == f.tag = "frame"
IsExc(f) == f.tag \notin {"frame", "None"}
\* pd.DataFrame()
EmptyFrame == Frame({}, <<>>)

Col(f, c) == [j \in 1..Len(f.rows) |-> f.rows[j].cells[c]]

SetCol(f, c, s) ==
    Frame(f.cols \cup {c},
          [j \in 1..Len(f.rows) |->
              [f.rows[j] EXCEPT !.cells =
                  [x \in f.cols \cup {c} |->
                      IF x = c THEN s[j] ELSE f.rows[j].cells[x]]]])

HasNaN(r) == \E c \in DOMAIN r.cells : IsNaN(r.cells[c])

\* DataFrame.dropna(): drop every row holding a NaN in any column
DropNa(f) ==
    Frame(f.cols,
          SelectSeq(f.rows, LAMBDA r : ~HasNaN(r)))


DateSet(f) == {f.rows[j].date : j \in 1..Len(f.rows)}
\* the row of f on date d, or a row of NaN when f has no such date
RowOn(f, d, sym) ==
    IF d \in DateSet(f)
    THEN f.rows[CHOOSE j \in 1..Len(f.rows) : f.rows[j].date = d]
    ELSE [sym |-> sym, date |-> d, cells |-> [c \in f.cols |-> NaN]]

-----------------------------------------------------------------------------
(* create_target, src/get_data.py:45-56 *)

\* Series.ffill(): each NaN takes the last value before it that is not NaN
FFill(s) ==
    LET f[j \in 0..Len(s)] ==
            IF j = 0 THEN NaN
            ELSE IF ~IsNaN(s[j]) THEN s[j] ELSE f[j - 1]
    IN  [j \in 1..Len(s) |-> f[j]]

\* Series.pct_change() with its defaults (periods = 1, fill_method = 'pad'):
\* the series is forward-filled, then each value is divided by the value of
\* the row before it, minus 1.  Closes are prices, hence positive.
pct_change(s) ==
    LET p == FFill(s)
    IN  [j \in 1..Len(s) |->
            IF j = 1 THEN NaN
            ELSE IF IsNaN(p[j]) \/ IsNaN(p[j - 1]) THEN NaN
            ELSE Frac(p[j].n * p[j - 1].d - p[j - 1].n * p[j].d,
                      p[j - 1].n * p[j].d)]

\* lambda x: 1 if x > 0 else 0
Binarize(x) == IF Less(Fin(0), x) THEN Fin(1) ELSE Fin(0)

\* Series.shift(-1): each row takes the value of the row after it, the last
\* row takes NaN
ShiftUp_fill0(s) == [j \in 1..Len(s) |-> IF j < Len(s) THEN s[j + 1] ELSE Fin(0)]
ShiftUp(s) == [j \in 1..Len(s) |-> IF j < Len(s) THEN s[j + 1] ELSE NaN]

create_target_droplast(f) ==
    LET d1 == SetCol(f, "close", pct_change(Col(f, "close")))
        d2 == DropNa(d1)
        d3 == SetCol(d2, "close",
                     [j \in 1..Len(d2.rows) |-> Binarize(d2.rows[j].cells["close"])])
    IN  DropNa(SetCol(d3, "close", ShiftUp(Col(d3, "close"))))

create_target(f) ==
    LET d1 == SetCol(f, "close", pct_change(Col(f, "close")))
        d2 == DropNa(d1)
        d3 == SetCol(d2, "close",
                     [j \in 1..Len(d2.rows) |-> Binarize(d2.rows[j].cells["close"])])
    IN  SetCol(d3, "close", ShiftUp(Col(d3, "close")))

\* the closes a table handed to create_target may hold
CloseVals == {9, 10, 11, 12}

\* The rows create_target can meet after the date join of lines 165 and 273:
\* a date both sides have (any one feature cell possibly missing, as in the
\* moving-average warm-up), a date only the symbol has (the index cells are
\* NaN), and a date only the index has (every symbol cell is NaN).
TargetCols == {"close", "volume", "^GSPC-close"}
TargetCells ==
    {[c \in TargetCols |->
        CASE c = "close" -> Fin(v) [] c = "volume" -> x [] OTHER -> y] :
        v \in CloseVals,
        <<x, y>> \in {<<Std, Std>>, <<NaN, Std>>, <<Std, NaN>>}}
    \cup {[c \in TargetCols |-> IF c = "^GSPC-close" THEN Std ELSE NaN]}

TargetTable(cs) ==
    Frame(TargetCols,
          [j \in 1..Len(cs) |-> [sym |-> "A", date |-> j - 1, cells |-> cs[j]]])


-----------------------------------------------------------------------------
(* Idle values of the variables a specification does not use *)

TargetIdle == t_in = None /\ t_out = None
InfIdle == s_in = None /\ s_out = None
PipeIdle ==
    /\ provider = <<>> /\ tickers = <<>> /\ indices = <<>> /\ period = ""
    /\ pc = "idle" /\ cIndices = <<>> /\ cPeriod = "" /\ index_df = None
    /\ index_calls = 0 /\ fetched = <<>> /\ i = 0 /\ df = None
    /\ main_df = None /\ count = 0 /\ result = None /\ raised = "none"

-----------------------------------------------------------------------------
(* The specification of create_target alone *)

InitTarget ==
    /\ \E n \in 0..MaxTRows : \E cs \in [1..n -> TargetCells] :
            t_in = TargetTable(cs)
    /\ t_out = None
    /\ InfIdle /\ PipeIdle

CreateTarget ==
    /\ t_out = None
    /\ t_out' = create_target(t_in)
    /\ UNCHANGED <<t_in, infVars, pipeVars>>

NextTarget == CreateTarget

SpecTarget == InitTarget /\ [][NextTarget]_vars

-----------------------------------------------------------------------------
(* Properties of create_target *)

NoMissing(f) == \A j \in 1..Len(f.rows) : ~HasNaN(f.rows[j])
Closes(f) == [j \in 1..Len(f.rows) |-> f.rows[j].cells["close"]]
Dates(f) == [j \in 1..Len(f.rows) |-> f.rows[j].date]
TargetDone == t_out # None

\* the symbol's trading days in the input: the dates it has a close on
TradingDays(f) ==
    {f.rows[j].date : j \in {x \in 1..Len(f.rows) : ~IsNaN(f.rows[x].cells["close"])}}
CloseOn(f, d) == RowOn(f, d, "").cells["close"]
HasNextDay(f, d) == \E e \in TradingDays(f) : e > d
NextDay(f, d) ==
    CHOOSE e \in TradingDays(f) : e > d /\ \A x \in TradingDays(f) : x > d => e <= x

\* C1: every row of create_target's result that has a label carries 1 if the
\* symbol's close on its next trading day after the row's date is strictly
\* greater than its close on that date, and 0 otherwise, also when rows with
\* missing values were removed before the shift.
C1_LabelIsNextDayDirection ==
    TargetDone =>
        \A j \in 1..Len(t_out.rows) :
            LET r == t_out.rows[j] IN
            ~IsNaN(r.cells["close"]) =>
                /\ r.date \in TradingDays(t_in)
                /\ HasNextDay(t_in, r.date)
                /\ r.cells["close"] =
                      IF Less(CloseOn(t_in, r.date),
                              CloseOn(t_in, NextDay(t_in, r.date)))
                      THEN Fin(1) ELSE Fin(0)

\* C2 as stated: on N >= 2 rows without missing values create_target returns
\* N-2 rows, none with a missing label.
C2_ReturnsNMinus2Rows ==
    (TargetDone /\ NoMissing(t_in) /\ Len(t_in.rows) >= 2) =>
        /\ Len(t_out.rows) = Len(t_in.rows) - 2
        /\ NoMissing(t_out)

\* C2, amended: on N >= 2 rows without missing values create_target returns
\* N-1 rows, the input's rows but the first; the last returned row has a
\* missing label and every other returned row a label 0 or 1; closes
\* [10, 11, 9, 12] on d0..d3 give d1 -> 0, d2 -> 1, d3 -> missing.
C2_ReturnsNMinus1Rows ==
    (TargetDone /\ NoMissing(t_in) /\ Len(t_in.rows) >= 2) =>
        LET n == Len(t_in.rows) IN
        /\ Len(t_out.rows) = n - 1
        /\ Dates(t_out) = [j \in 1..(n - 1) |-> t_in.rows[j + 1].date]
        /\ IsNaN(t_out.rows[n - 1].cells["close"])
        /\ \A j \in 1..(n - 2) : t_out.rows[j].cells["close"] \in {Fin(0), Fin(1)}
        /\ Closes(t_in) = <<Fin(10), Fin(11), Fin(9), Fin(12)>>
              => Closes(t_out) = <<Fin(0), Fin(1), NaN>>

C2_Witness ==
    /\ TargetDone /\ NoMissing(t_in)
    /\ Closes(t_in) = <<Fin(10), Fin(11), Fin(9), Fin(12)>>
    /\ Len(t_out.rows) = 3

-----------------------------------------------------------------------------
(* remove_inf, src/get_data.py:25-43 *)

IndexSet(s, v) == {j \in 1..Len(s) : s[j] = v}
DropIdx(s, ind) == SelectSeq([j \in 1..Len(s) |-> <<j, s[j]>>],
                             LAMBDA p : p[1] \notin ind)

\* Python's max / min over a non-empty sequence of <<index, cell>> pairs: the
\* first element, replaced by each later one that compares greater / less
PyMax(ps) ==
    LET m[j \in 1..Len(ps)] ==
            IF j = 1 THEN ps[1][2]
            ELSE IF Less(m[j - 1], ps[j][2]) THEN ps[j][2] ELSE m[j - 1]
    IN  m[Len(ps)]
PyMin(ps) ==
    LET m[j \in 1..Len(ps)] ==
            IF j = 1 THEN ps[1][2]
            ELSE IF Less(ps[j][2], m[j - 1]) THEN ps[j][2] ELSE m[j - 1]
    IN  m[Len(ps)]

\* Series.replace(a, b): a NEW Series with every a replaced by b
Replace(s, a, b) == [j \in 1..Len(s) |-> IF s[j] = a THEN b ELSE s[j]]

\* max() / min() of an empty sequence raise ValueError
MaxRaises(f, c) ==
    /\ IndexSet(Col(f, c), PInf) # {}
    /\ DropIdx(Col(f, c), IndexSet(Col(f, c), PInf)) = <<>>
MinRaises(f, c) ==
    /\ IndexSet(Col(f, c), NInf) # {}
    /\ DropIdx(Col(f, c), IndexSet(Col(f, c), NInf)) = <<>>

\* Lines 40 and 42 call df[col].replace(...) without inplace=True and drop
\* the Series it returns: df is never assigned, and line 43 returns it as it
\* came.  What is left of the two calls is the ValueError of max() or min()
\* on a column that holds nothing but the infinity looked for.
remove_inf(f) ==
    LET p_ind(c) == IndexSet(Col(f, c), PInf)
        n_ind(c) == IndexSet(Col(f, c), NInf)
        dropped1(c) == Replace(Col(f, c), PInf, PyMax(DropIdx(Col(f, c), p_ind(c))))
        dropped2(c) == Replace(Col(f, c), NInf, PyMin(DropIdx(Col(f, c), n_ind(c))))
    IN  IF \E c \in f.cols : MaxRaises(f, c) \/ MinRaises(f, c)
        THEN Exc("ValueError")
        ELSE f

InfCols == {"a", "b"}
InfCells == {Fin(0), Fin(1), PInf, NInf}

InitInf ==
    /\ \E n \in 1..MaxIRows : \E cs \in [1..n -> [InfCols -> InfCells]] :
            s_in = Frame(InfCols,
                         [j \in 1..n |-> [sym |-> "", date |-> j - 1, cells |-> cs[j]]])
    /\ s_out = None
    /\ TargetIdle /\ PipeIdle

RemoveInf ==
    /\ s_out = None
    /\ s_out' = remove_inf(s_in)
    /\ UNCHANGED <<s_in, targetVars, pipeVars>>

NextInf == RemoveInf

SpecInf == InitInf /\ [][NextInf]_vars

ColHasFinite(f, c) == \E j \in 1..Len(f.rows) : IsFinite(f.rows[j].cells[c])
FiniteOf(f, c) ==
    SelectSeq([j \in 1..Len(f.rows) |-> <<j, f.rows[j].cells[c]>>],
              LAMBDA p : IsFinite(p[2]))

\* C3: when every column has a finite value, remove_inf's result holds no
\* infinity: each +inf is replaced by its column's greatest finite value,
\* each -inf by its column's least finite value, every other cell is kept.
C3_NoInfinityLeft ==
    (s_out # None /\ \A c \in s_in.cols : ColHasFinite(s_in, c)) =>
        /\ IsFrame(s_out)
        /\ Len(s_out.rows) = Len(s_in.rows)
        /\ \A j \in 1..Len(s_in.rows) : \A c \in s_in.cols :
              s_out.rows[j].cells[c] =
                  CASE s_in.rows[j].cells[c] = PInf -> PyMax(FiniteOf(s_in, c))
                    [] s_in.rows[j].cells[c] = NInf -> PyMin(FiniteOf(s_in, c))
                    [] OTHER -> s_in.rows[j].cells[c]

-----------------------------------------------------------------------------
(* pandas and scikit-learn operations the pipeline uses *)

\* DataFrame.empty: no rows or no columns
Empty(f) == f.cols = {} \/ f.rows = <<>>

\* DataFrame.drop(cs, axis = 1): KeyError unless every label is a column
DropCols(f, cs) ==
    IF ~(cs \subseteq f.cols) THEN Exc("KeyError")
    ELSE Frame(f.cols \ cs,
               [j \in 1..Len(f.rows) |->
                   [f.rows[j] EXCEPT !.cells = [c \in f.cols \ cs |-> f.rows[j].cells[c]]]])

\* Series.rolling(window = w).mean(): NaN until w values are there
RollingMean(s, w) ==
    LET sum[j \in 0..Len(s)] == IF j = 0 THEN 0 ELSE sum[j - 1] + s[j].n
    IN  [j \in 1..Len(s) |->
            IF j < w \/ \E x \in (j - w + 1)..j : ~IsFinite(s[x]) THEN NaN
            ELSE Frac(sum[j] - sum[j - w], w)]

\* StandardScaler().fit_transform over the columns cs: ValueError on a table
\* of no rows and on an infinite cell; a NaN stays NaN, a finite value
\* becomes its z-score
Standardize(f, cs) ==
    IF f.rows = <<>> THEN Exc("ValueError")
    ELSE IF \E j \in 1..Len(f.rows) : \E c \in cs : f.rows[j].cells[c] \in {PInf, NInf}
    THEN Exc("ValueError")
    ELSE Frame(f.cols,
               [j \in 1..Len(f.rows) |->
                   [f.rows[j] EXCEPT !.cells =
                       [c \in f.cols |->
                           IF c \in cs /\ ~IsNaN(f.rows[j].cells[c]) THEN Std
                           ELSE f.rows[j].cells[c]]]])

\* DataFrame.fillna(method = 'ffill'): a NEW table, each column forward-filled
FillNa(f) ==
    Frame(f.cols,
          [j \in 1..Len(f.rows) |->
              [f.rows[j] EXCEPT !.cells = [c \in f.cols |-> FFill(Col(f, c))[j]]]])

RECURSIVE SortedSeq(_)
SortedSeq(S) ==
    IF S = {} THEN <<>>
    ELSE LET m == CHOOSE x \in S : \A y \in S : x <= y
         IN  <<m>> \o SortedSeq(S \ {m})

\* pd.concat([a, b], axis = 1): the columns of both, on the union of their
\* dates; a date one side lacks gets NaN in that side's columns
ConcatCols(a, b) ==
    LET ds == SortedSeq(DateSet(a) \cup DateSet(b))
    IN  Frame(a.cols \cup b.cols,
              [j \in 1..Len(ds) |->
                  LET rb == RowOn(b, ds[j], "")
                      ra == RowOn(a, ds[j], rb.sym)
                  IN  [sym |-> ra.sym,
                       date |-> ds[j],
                       cells |-> [c \in a.cols \cup b.cols |->
                                    IF c \in a.cols THEN ra.cells[c] ELSE rb.cells[c]]]])

Widen(r, cols) ==
    [r EXCEPT !.cells = [c \in cols |-> IF c \in DOMAIN r.cells THEN r.cells[c] ELSE NaN]]

\* pd.concat([a, b], axis = 0): the rows of a, then those of b, over the union
\* of their columns; a column a row's table lacks gets NaN
ConcatRows(a, b) ==
    Frame(a.cols \cup b.cols,
          [j \in 1..Len(a.rows) |-> Widen(a.rows[j], a.cols \cup b.cols)]
          \o [j \in 1..Len(b.rows) |-> Widen(b.rows[j], a.cols \cup b.cols)])

-----------------------------------------------------------------------------
(* The price-history provider: yf.Ticker(symbol).history(period = period) *)

RawStandard == {"Open", "High", "Low", "Close", "Volume", "Dividends", "Stock Splits"}
\* the provider's response without the corporate-action columns
RawNoActions == RawStandard \ {"Dividends", "Stock Splits"}
\* the provider's response with the volume column named differently
RawVolRenamed == (RawStandard \ {"Volume"}) \cup {"Vol"}
\* the provider's response with the close column named differently
RawCloseRenamed == (RawStandard \ {"Close"}) \cup {"Adj Close"}

\* str.lower() on the column names the provider can send
Lower(c) ==
    CASE c = "Open" -> "open" [] c = "High" -> "high" [] c = "Low" -> "low"
      [] c = "Close" -> "close" [] c = "Volume" -> "volume" [] c = "Vol" -> "vol"
      [] c = "Adj Close" -> "adj close" [] c = "Dividends" -> "dividends"
      [] c = "Stock Splits" -> "stock splits"

\* the closes the provider's histories hold
PipeCloses == {1, 2}

\* the rows a period covers, scaled down
PeriodRows(p) == IF p = "5y" THEN MaxRows ELSE MaxRows - 1

\* A response [err, cols, closes]: the request failed (err), or a table of
\* the columns cols over the trading days 0 .. Len(closes)-1.  history()
\* returns the most recent PeriodRows(p) of them.
History(resp, sym, p) ==
    IF resp.err THEN Exc("FetchError")
    ELSE LET n == Len(resp.closes)
             first == IF n > PeriodRows(p) THEN n - PeriodRows(p) ELSE 0
         IN  Frame(resp.cols,
                   [j \in 1..(n - first) |->
                       [sym |-> sym, date |-> first + j - 1,
                        cells |-> [c \in resp.cols |->
                                     IF c \in {"Close", "Adj Close"}
                                     THEN Fin(resp.closes[first + j])
                                     ELSE IF c \in {"Dividends", "Stock Splits"}
                                     THEN Fin(0) ELSE Fin(1)]]])

\* the macro indices answer with the standard columns over MaxRows days
IndexResponse == [err |-> FALSE, cols |-> RawStandard, closes |-> [j \in 1..MaxRows |-> 1]]

-----------------------------------------------------------------------------
(* The feature tables: get_index_data and the per-symbol build *)

\* f, or G(f) when f is no exception
Then(f, G(_)) == IF IsExc(f) THEN f ELSE G(f)

\* DataFrame.rename over every column
RenameCols(f, G(_)) ==
    Frame({G(c) : c \in f.cols},
          [j \in 1..Len(f.rows) |->
              [f.rows[j] EXCEPT !.cells =
                  [x \in {G(c) : c \in f.cols} |->
                      f.rows[j].cells[CHOOSE c \in f.cols : G(c) = x]]]])

\* f'{ind}-{col.lower()}' and f'{ind}-ma5' ...
IdxName ==
    [ind \in {"^GSPC", "^VIX", "^DJI"} |->
        CASE ind = "^GSPC" ->
                [close |-> "^GSPC-close", volume |-> "^GSPC-volume",
                 dividends |-> "^GSPC-dividends", ma5 |-> "^GSPC-ma5",
                 ma20 |-> "^GSPC-ma20", ma60 |-> "^GSPC-ma60", ma200 |-> "^GSPC-ma200"]
          [] ind = "^VIX" ->
                [close |-> "^VIX-close", volume |-> "^VIX-volume",
                 dividends |-> "^VIX-dividends", ma5 |-> "^VIX-ma5",
                 ma20 |-> "^VIX-ma20", ma60 |-> "^VIX-ma60", ma200 |-> "^VIX-ma200"]
          [] OTHER ->
                [close |-> "^DJI-close", volume |-> "^DJI-volume",
                 dividends |-> "^DJI-dividends", ma5 |-> "^DJI-ma5",
                 ma20 |-> "^DJI-ma20", ma60 |-> "^DJI-ma60", ma200 |-> "^DJI-ma200"]]

\* The four rolling means of the close column.  The windows 5, 20, 60 and 200
\* are all scaled to MaWindow rows: what the pipeline depends on is that the
\* first rows of a moving-average column are NaN.
AddMa(f, close, Name(_)) ==
    LET m == RollingMean(Col(f, close), MaWindow)
    IN  SetCol(SetCol(SetCol(SetCol(f, Name("ma5"), m), Name("ma20"), m),
                      Name("ma60"), m), Name("ma200"), m)

\* One index's table, lines 74-99
IndexFrame(ind, p) ==
    LET h == History(IndexResponse, ind, p)
        d == IF {"Dividends", "Stock Splits", "Open", "Low", "High"} \subseteq h.cols
             THEN DropCols(h, {"Dividends", "Stock Splits", "Open", "Low", "High"})
             ELSE DropCols(h, {"Open", "Low", "High"})
        r(f) == RenameCols(f, LAMBDA c : IdxName[ind][Lower(c)])
        m(f) == IF IdxName[ind].close \in f.cols
                THEN AddMa(f, IdxName[ind].close, LAMBDA c : IdxName[ind][c])
                ELSE Exc("KeyError")
        z(f) == Standardize(f, f.cols)
        \* line 97: the forward-filled table is dropped
        filled(f) == FillNa(f)
    IN  Then(Then(Then(Then(Then(h, LAMBDA f : d), r), m), z), remove_inf)

\* get_index_data, lines 58-106: the tables of the indices side by side
get_index_data(inds, p) ==
    LET acc[j \in 0..Len(inds)] ==
            IF j = 0 THEN EmptyFrame
            ELSE IF IsExc(acc[j - 1]) THEN acc[j - 1]
            ELSE LET d == IndexFrame(inds[j], p)
                 IN  IF IsExc(d) THEN d
                     ELSE IF Empty(acc[j - 1]) THEN d
                     ELSE ConcatCols(acc[j - 1], d)
    IN  acc[Len(inds)]

\* the calendar: day 0 is a Monday; months are MonthLen days long
Weekday(d) == d % 7
Month(d) == ((d \div MonthLen) % 12) + 1
DayColName == <<"day_0", "day_1", "day_2", "day_3", "day_4", "day_5", "day_6">>
MonthColName == <<"month_1", "month_2", "month_3", "month_4", "month_5", "month_6",
                  "month_7", "month_8", "month_9", "month_10", "month_11", "month_12">>
DayCols == {DayColName[k] : k \in 1..7}
MonthCols == {MonthColName[k] : k \in 1..12}

\* Lines 156-162: the weekday and the month of each date as text columns, and
\* pd.get_dummies, which replaces each text column by one indicator column
\* per value that OCCURS in it
get_dummies(f) ==
    LET days == {DayColName[Weekday(f.rows[j].date) + 1] : j \in 1..Len(f.rows)}
        months == {MonthColName[Month(f.rows[j].date)] : j \in 1..Len(f.rows)}
    IN  Frame(f.cols \cup days \cup months,
              [j \in 1..Len(f.rows) |->
                  [f.rows[j] EXCEPT !.cells =
                      [c \in f.cols \cup days \cup months |->
                          IF c \in f.cols THEN f.rows[j].cells[c]
                          ELSE IF c = DayColName[Weekday(f.rows[j].date) + 1]
                                  \/ c = MonthColName[Month(f.rows[j].date)]
                          THEN Fin(1) ELSE Fin(0)]]])

\* The per-symbol feature table from the fetched history h, up to the join
\* with the index table: lines 128-165, and the same code at lines 237-273
TickerFrame(h, idx) ==
    LET d(f) == DropCols(f, {"Dividends", "Stock Splits"})
        r(f) == RenameCols(f, Lower)
        m(f) == IF "close" \in f.cols
                THEN AddMa(f, "close", LAMBDA c : c)
                ELSE Exc("KeyError")
        z(f) == Standardize(f, f.cols \ {"close"})
        \* lines 150 and 258: the forward-filled table is dropped
        filled(f) == FillNa(f)
        j(f) == ConcatCols(f, idx)
    IN  Then(Then(Then(Then(Then(Then(Then(h, d), r), m), z), remove_inf),
                  get_dummies), j)

\* the provider's answer for a symbol; it knows only the symbols it lists
ErrResponse == [err |-> TRUE, cols |-> {}, closes |-> <<>>]
Lookup(sym) == IF sym \in DOMAIN provider THEN provider[sym] ELSE ErrResponse

\* ticker.replace('.', '-') on a ticker, a sequence of characters
Normalise(t) == [j \in 1..Len(t) |-> IF t[j] = "." THEN "-" ELSE t[j]]

\* One pass of the loop body up to line 171: the symbol's labelled rows, or
\* the exception the except clause of line 183 catches
TickerRows(t, idx, p) ==
    Then(TickerFrame(History(Lookup(Normalise(t)), Normalise(t), p), idx),
         LAMBDA f : DropNa(create_target(f)))

\* Lines 173-177 and 183-184: the accumulated Dataset after one pass
Accumulate(main, d) ==
    IF IsExc(d) THEN main
    ELSE IF Empty(main) THEN d
    ELSE ConcatRows(main, d)

\* Lines 186-192: what compile_normalise_data returns, or the KeyError of
\* dropping a column that is not there
FinalDataset(main) == DropCols(DropNa(main), {"^VIX-volume"})

\* compile_normalise_data as a function of its arguments
Compile(ticks, inds, p) ==
    LET idx == get_index_data(inds, p)
        acc[j \in 0..Len(ticks)] ==
            IF j = 0 THEN EmptyFrame
            ELSE Accumulate(acc[j - 1], TickerRows(ticks[j], idx, p))
    IN  IF IsExc(idx) THEN idx ELSE FinalDataset(acc[Len(ticks)])

-----------------------------------------------------------------------------
(* get_input_data's sampling, lines 213-223 *)

\* Python's round(p / q), ties to even
Round(p, q) ==
    LET fl == p \div q
        r2 == 2 * (p % q)
    IN  IF r2 < q THEN fl
        ELSE IF r2 > q THEN fl + 1
        ELSE IF fl % 2 = 0 THEN fl ELSE fl + 1

\* DataFrame.sample(frac = num / den) on n rows draws round(frac * n) rows
SampleSize(num, den, n) == Round(num * n, den)

LabelRows(f, v) == {j \in 1..Len(f.rows) : f.rows[j].cells["close"] = v}
Min(a, b) == IF a < b THEN a ELSE b

\* the rows of f at the positions ps.  sample(frac = 1) of line 223 returns
\* them in a random order, which is not tracked.
Pick(f, ps) ==
    Frame(f.cols, SelectSeq([j \in 1..Len(f.rows) |-> <<j, f.rows[j]>>],
                            LAMBDA q : q[1] \in ps))

-----------------------------------------------------------------------------
(* The pipeline *)

TickerA == <<"A">>
TickerB == <<"B", ".", "B">>
DefaultIndices == <<"^GSPC", "^VIX">>

\* A symbol's history with the standard columns: no rows at all, too few
\* rows to leave one once the warm-up and the last row are gone, or MaxRows
\* rows
HistoryLens == {0, MaWindow, MaxRows}
Histories == UNION {[1..n -> PipeCloses] : n \in HistoryLens}
Responses ==
    {ErrResponse}
    \cup {[err |-> FALSE, cols |-> RawStandard, closes |-> cs] : cs \in Histories}
    \cup {[err |-> FALSE, cols |-> c, closes |-> [j \in 1..MaxRows |-> 1 + (j % 2)]] :
            c \in {RawNoActions, RawVolRenamed, RawCloseRenamed}}

\* the index list and the period a caller passes: the defaults, another
\* index list, another period
CallArgs == {<<DefaultIndices, "5y">>, <<<<"^DJI">>, "5y">>, <<DefaultIndices, "2y">>}

Init ==
    /\ tickers \in {<<>>, <<TickerA>>, <<TickerA, TickerB>>}
    /\ provider \in [{Normalise(TickerA), Normalise(TickerB)} -> Responses]
    \* a symbol nobody asks for: its response is left out of the choice
    /\ \A s \in DOMAIN provider :
          (\A k \in 1..Len(tickers) : Normalise(tickers[k]) # s)
              => provider[s] = ErrResponse
    /\ \E a \in CallArgs : indices = a[1] /\ period = a[2]
    /\ pc = "start"
    /\ cIndices = <<>> /\ cPeriod = "" /\ index_df = None
    /\ index_calls = 0 /\ fetched = <<>> /\ i = 0 /\ df = None
    /\ main_df = None /\ count = 0 /\ result = None /\ raised = "none"
    /\ TargetIdle /\ InfIdle

IndexRequest(ind) == [kind |-> "index", idx |-> ind, sym |-> <<>>]
TickerRequest(t) == [kind |-> "ticker", idx |-> "", sym |-> t]
IndexRequests(inds) == [j \in 1..Len(inds) |-> IndexRequest(inds[j])]

\* Line 209, then lines 113-115: get_input_data calls compile_normalise_data
\* with the literal index list and the literal period
GetInputData ==
    /\ pc = "start"
    /\ cIndices' = <<"^GSPC", "^VIX">>
    /\ cPeriod' = "5y"
    /\ main_df' = EmptyFrame
    /\ count' = 0
    /\ pc' = "index"
    /\ UNCHANGED <<provider, tickers, indices, period, index_df, index_calls,
                   fetched, i, df, result, raised, targetVars, infVars>>

\* Line 119
GetIndexData ==
    /\ pc = "index"
    /\ index_df' = get_index_data(cIndices, cPeriod)
    /\ index_calls' = index_calls + 1
    /\ fetched' = fetched \o IndexRequests(cIndices)
    /\ i' = 1
    /\ pc' = "loop"
    /\ UNCHANGED <<provider, tickers, indices, period, cIndices, cPeriod, df,
                   main_df, count, result, raised, targetVars, infVars>>

\* The index table after a pass of the loop: line 165 joins it into a new
\* table, create_target works on a copy (line 50), and the dropna of line
\* 171 acts on that copy
IndexAfterPass_inplace(idx, d) == DropNa(idx)
IndexAfterPass(idx, d) == idx

\* One pass of the loop, lines 121-184
ProcessTicker ==
    /\ pc = "loop"
    /\ i <= Len(tickers)
    /\ LET d == TickerRows(tickers[i], index_df, cPeriod)
       IN  /\ df' = IF IsExc(d) THEN None ELSE d
           /\ main_df' = Accumulate(main_df, d)
           /\ count' = IF IsExc(d) THEN count ELSE count + 1
           /\ index_df' = IndexAfterPass(index_df, d)
    /\ fetched' = Append(fetched, TickerRequest(Normalise(tickers[i])))
    /\ i' = i + 1
    /\ UNCHANGED <<provider, tickers, indices, period, pc, cIndices, cPeriod,
                   index_calls, result, raised, targetVars, infVars>>

\* Lines 186-192: compile_normalise_data returns, or raises
Finish ==
    /\ pc = "loop"
    /\ i > Len(tickers)
    /\ LET d == FinalDataset(main_df)
       IN  IF IsExc(d)
           THEN /\ raised' = d.tag
                /\ pc' = "returned"
                /\ main_df' = DropNa(main_df)
           ELSE /\ raised' = raised
                /\ pc' = "balance"
                /\ main_df' = d
    /\ UNCHANGED <<provider, tickers, indices, period, cIndices, cPeriod,
                   index_df, index_calls, fetched, i, df, count, result,
                   targetVars, infVars>>

\* Lines 213-225
Balance ==
    /\ pc = "balance"
    /\ LET buys == LabelRows(main_df, Fin(1))
           sells == LabelRows(main_df, Fin(0))
           lower == Min(Cardinality(buys), Cardinality(sells))
       IN  \/ /\ Cardinality(buys) = 0 \/ Cardinality(sells) = 0
              /\ raised' = "ZeroDivisionError"
              /\ result' = result
           \/ /\ Cardinality(buys) > 0 /\ Cardinality(sells) > 0
              /\ \E bs \in SUBSET buys : \E ss \in SUBSET sells :
                    /\ Cardinality(bs) = SampleSize(lower, Cardinality(buys), Cardinality(buys))
                    /\ Cardinality(ss) = SampleSize(lower, Cardinality(sells), Cardinality(sells))
                    /\ result' = Pick(main_df, bs \cup ss)
              /\ raised' = raised
    /\ pc' = "returned"
    /\ UNCHANGED <<provider, tickers, indices, period, cIndices, cPeriod,
                   index_df, index_calls, fetched, i, df, main_df, count,
                   targetVars, infVars>>

\* get_preds_data, lines 227-281, for one ticker of the list
GetPredsData ==
    /\ pc = "start"
    /\ \E k \in 1..Len(tickers) :
          LET t == tickers[k]
              h == History(Lookup(t), t, period)
              idx == get_index_data(indices, period)
              f == IF IsExc(h) THEN h
                   ELSE IF IsExc(idx) THEN idx
                   ELSE Then(Then(TickerFrame(h, idx),
                                  LAMBDA x : DropCols(x, {"^VIX-volume"})),
                             create_target)
          IN  /\ fetched' = IF IsExc(h) THEN <<TickerRequest(t)>>
                            ELSE <<TickerRequest(t)>> \o IndexRequests(indices)
              /\ index_calls' = IF IsExc(h) THEN index_calls ELSE index_calls + 1
              /\ index_df' = IF IsExc(h) THEN index_df ELSE idx
              /\ df' = IF IsExc(f) THEN None ELSE f
              /\ result' = IF IsExc(f) THEN None ELSE f
              /\ raised' = IF IsExc(f) THEN f.tag ELSE raised
    /\ pc' = "preds_returned"
    /\ UNCHANGED <<provider, tickers, indices, period, cIndices, cPeriod, i,
                   main_df, count, targetVars, infVars>>

Next == GetInputData \/ GetIndexData \/ ProcessTicker \/ Finish \/ Balance \/ GetPredsData

Spec == Init /\ [][Next]_vars

-----------------------------------------------------------------------------
(* Properties of the pipeline *)

\* compile_normalise_data has returned its Dataset, which main_df holds
CompileReturned ==
    \/ pc = "balance"
    \/ pc = "returned" /\ raised # "KeyError"
\* compile_normalise_data has returned or raised
CompileOver == pc \in {"balance", "returned"}
InputOver == pc = "returned"

BuildFails(t) == IsExc(TickerRows(t, index_df, cPeriod))
RowSet(f) == {f.rows[j] : j \in 1..Len(f.rows)}
RowsOf(f, sym) == IF IsFrame(f) THEN {r \in RowSet(f) : r.sym = sym} ELSE {}
Label(r) == r.cells["close"]

\* C4: whatever the class counts of the compiled Dataset, get_input_data
\* returns exactly lower = min(count(label = 1), count(label = 0)) rows of
\* each class, each a row of the Dataset, none twice.
C4_BalancedSample ==
    (InputOver /\ CompileReturned) =>
        LET lower == Min(Cardinality(LabelRows(main_df, Fin(1))),
                         Cardinality(LabelRows(main_df, Fin(0))))
        IN  /\ raised = "none"
            /\ IsFrame(result)
            /\ Cardinality(LabelRows(result, Fin(1))) = lower
            /\ Cardinality(LabelRows(result, Fin(0))) = lower
            /\ RowSet(result) \subseteq RowSet(main_df)
            /\ Cardinality(RowSet(result)) = Len(result.rows)

\* the response for a ticker is a failed fetch or has an unexpected column shape
BadResponse(t) ==
    \/ Lookup(Normalise(t)).err
    \/ Lookup(Normalise(t)).cols # RawStandard
Without(ticks, k) == [j \in 1..(Len(ticks) - 1) |-> IF j < k THEN ticks[j] ELSE ticks[j + 1]]

\* C5: for a symbol A whose fetch fails or whose response has an unexpected
\* column shape, the rows every other symbol B has in the returned Dataset
\* are exactly the rows B has when A is removed from the list.
C5_PerSymbolIsolation ==
    CompileOver =>
        \A k \in 1..Len(tickers) :
            BadResponse(tickers[k]) =>
                \A b \in 1..Len(tickers) :
                    tickers[b] # tickers[k] =>
                        RowsOf(IF CompileReturned THEN main_df ELSE None,
                               Normalise(tickers[b]))
                          = RowsOf(Compile(Without(tickers, k), cIndices, cPeriod),
                                   Normalise(tickers[b]))

\* C6: when the build fails for every symbol of the list, or the list is
\* empty, compile_normalise_data and get_input_data finish without raising
\* and return an empty Dataset.
C6_TotalFailureGivesEmptyDataset ==
    (InputOver /\ \A k \in 1..Len(tickers) : BuildFails(tickers[k])) =>
        /\ raised = "none"
        /\ IsFrame(result)
        /\ result.rows = <<>>

OnesIn(r, cols) == {c \in cols \cap DOMAIN r.cells : r.cells[c] = Fin(1)}
ZerosIn(r, cols) == {c \in cols \cap DOMAIN r.cells : r.cells[c] = Fin(0)}

\* C7: every row of a per-symbol table has 7 day-of-week indicator columns,
\* exactly one of them 1 and the other six 0, and 12 month indicator
\* columns, exactly one of them 1, whatever weekdays and months occur in the
\* symbol's dates.
C7_OneHotComplete ==
    IsFrame(df) =>
        /\ DayCols \subseteq df.cols
        /\ MonthCols \subseteq df.cols
        /\ \A j \in 1..Len(df.rows) :
              /\ Cardinality(OnesIn(df.rows[j], DayCols)) = 1
              /\ Cardinality(ZerosIn(df.rows[j], DayCols)) = 6
              /\ Cardinality(OnesIn(df.rows[j], MonthCols)) = 1
              /\ Cardinality(ZerosIn(df.rows[j], MonthCols)) = 11

\* the history the loop fetched for the symbol a row is tagged with
FetchedRows(sym) == History(Lookup(sym), sym, cPeriod).rows
WarmUpDates(sym) ==
    {FetchedRows(sym)[j].date : j \in 1..Min(MaWindow - 1, Len(FetchedRows(sym)))}
LastDate(sym) == FetchedRows(sym)[Len(FetchedRows(sym))].date

\* C8: every row of the Dataset compile_normalise_data returns has a label 0
\* or 1 and no missing value in any column; neither the moving-average
\* warm-up rows nor the last row of a symbol are in it.
C8_LabelledAndComplete ==
    CompileReturned =>
        \A j \in 1..Len(main_df.rows) :
            LET r == main_df.rows[j] IN
            /\ Label(r) \in {Fin(0), Fin(1)}
            /\ ~HasNaN(r)
            /\ r.date \notin WarmUpDates(r.sym)
            /\ r.date # LastDate(r.sym)

C8_Witness ==
    /\ pc = "balance"
    /\ Len(main_df.rows) >= 2
    /\ \E k \in 1..Len(tickers) : BuildFails(tickers[k])
    /\ \E k \in 1..Len(tickers) : ~BuildFails(tickers[k])

TickerRequests(ticks, n) == [j \in 1..n |-> TickerRequest(Normalise(ticks[j]))]

\* C9: within one call of compile_normalise_data, get_index_data is invoked
\* exactly once and before the first symbol is fetched; the symbols are then
\* fetched one at a time in list order; every pass of the loop, successful
\* or failed, leaves the index table as get_index_data returned it.
C9_IndexBuiltOnceAndKept ==
    [][ /\ pc = "index" =>
              /\ index_calls = 0 /\ fetched = <<>>
              /\ index_calls' = 1
              /\ fetched' = IndexRequests(cIndices)
        /\ pc = "loop" =>
              /\ index_calls = 1 /\ index_calls' = 1
              /\ index_df = get_index_data(cIndices, cPeriod)
              /\ index_df' = index_df
              /\ fetched = IndexRequests(cIndices) \o TickerRequests(tickers, i - 1)
              /\ i <= Len(tickers) =>
                    fetched' = IndexRequests(cIndices) \o TickerRequests(tickers, i)
              /\ i > Len(tickers) => fetched' = fetched
        /\ pc = "balance" =>
              /\ index_calls' = 1
              /\ index_df' = index_df
              /\ fetched' = fetched
      ]_vars

C9_Witness ==
    /\ pc = "balance"
    /\ index_calls = 1
    /\ Len(fetched) = Len(cIndices) + 2
    /\ \E k \in 1..Len(tickers) : BuildFails(tickers[k])
    /\ \E k \in 1..Len(tickers) : ~BuildFails(tickers[k])

\* C10: get_input_data(tickers, indices, period) compiles with the index
\* list and the period its caller passed.
C10_CallerArgumentsUsed ==
    pc \in {"index", "loop", "balance", "returned"} =>
        /\ cIndices = indices
        /\ cPeriod = period

=============================================================================
